---- MODULE Spec2Model ----
(***************************************************************************)
(* Model of stocksee: the technical-indicator module                       *)
(* (src/utils/technicalAnalysis.ts: calculateMA, calculateEMA,             *)
(* calculateMACD, calculateRSI), fetchHistoricalData with the state of     *)
(* TechnicalAnalysisView, the news fetches of App and the loads, refreshes *)
(* and merge of MarketView.  Each part has its own specification and       *)
(* leaves the variables of the other parts at their resting values.        *)
(*                                                                         *)
(* Numbers.  A JavaScript value is a record [k, n, d]: k = "num" is the    *)
(* rational n/d in lowest terms with d > 0, k = "nan" is NaN, k = "inf" is *)
(* +Infinity or -Infinity (sign in n), k = "null" is null and k = "undef"  *)
(* is undefined (an absent property).  Arithmetic is exact on rationals.   *)
(*                                                                         *)
(* Indices.  The source indexes arrays from 0, the model's sequences from  *)
(* 1: index i of the source is position i + 1 of the model.                *)
(***************************************************************************)
EXTENDS Integers, Sequences, FiniteSets, TLC

VARIABLES data, call, result, threw, view, hist, app, newsFetches, market, loads

vars == <<data, call, result, threw, view, hist, app, newsFetches, market, loads>>

----------------------------------------------------------------------------
(* Bounds of the explored inputs *)

MaxLen == 4

MaxClose == 2

MaxPeriod == 3

----------------------------------------------------------------------------
(* JavaScript values and arithmetic *)

Abs(x) == IF x < 0 THEN -x ELSE x

RECURSIVE GCD(_, _)
GCD(a, b) == IF b = 0 THEN a ELSE GCD(b, a % b)

Rat(n, d) ==
    LET g == GCD(Abs(n), Abs(d))
        s == IF d < 0 THEN -1 ELSE 1
    IN  [k |-> "num", n |-> s * (n \div g), d |-> s * (d \div g)]

Num(n) == [k |-> "num", n |-> n, d |-> 1]

NaN == [k |-> "nan", n |-> 0, d |-> 1]

Inf(s) == [k |-> "inf", n |-> s, d |-> 1]

NULL == [k |-> "null", n |-> 0, d |-> 1]

UNDEF == [k |-> "undef", n |-> 0, d |-> 1]

Sign(x) == IF x.n < 0 THEN -1 ELSE 1

\* ToNumber: null coerces to 0, undefined to NaN
ToNumber(v) ==
    IF v.k = "null" THEN Num(0)
    ELSE IF v.k = "undef" THEN NaN
    ELSE v

JNeg(a) ==
    LET x == ToNumber(a)
    IN  IF x.k = "nan" THEN NaN
        ELSE IF x.k = "inf" THEN Inf(-x.n)
        ELSE Rat(-x.n, x.d)

JAdd(a, b) ==
    LET x == ToNumber(a)
        y == ToNumber(b)
    IN  IF x.k = "nan" \/ y.k = "nan" THEN NaN
        ELSE IF x.k = "inf" /\ y.k = "inf" THEN (IF x.n = y.n THEN x ELSE NaN)
        ELSE IF x.k = "inf" THEN x
        ELSE IF y.k = "inf" THEN y
        ELSE Rat(x.n * y.d + y.n * x.d, x.d * y.d)

JSub(a, b) == JAdd(a, JNeg(b))

JMul(a, b) ==
    LET x == ToNumber(a)
        y == ToNumber(b)
    IN  IF x.k = "nan" \/ y.k = "nan" THEN NaN
        ELSE IF x.k = "inf" \/ y.k = "inf"
             THEN (IF x.n = 0 \/ y.n = 0 THEN NaN ELSE Inf(Sign(x) * Sign(y)))
        ELSE Rat(x.n * y.n, x.d * y.d)

JDiv(a, b) ==
    LET x == ToNumber(a)
        y == ToNumber(b)
    IN  IF x.k = "nan" \/ y.k = "nan" THEN NaN
        ELSE IF x.k = "inf" THEN (IF y.k = "inf" THEN NaN ELSE Inf(Sign(x) * Sign(y)))
        ELSE IF y.k = "inf" THEN Num(0)
        ELSE IF y.n = 0 THEN (IF x.n = 0 THEN NaN ELSE Inf(Sign(x)))
        ELSE Rat(x.n * y.d, x.d * y.n)

\* a > b; every comparison with NaN is false
JGt(a, b) ==
    LET x == ToNumber(a)
        y == ToNumber(b)
    IN  IF x.k = "nan" \/ y.k = "nan" THEN FALSE
        ELSE IF x.k = "inf" THEN x.n > 0 /\ ~(y.k = "inf" /\ y.n > 0)
        ELSE IF y.k = "inf" THEN y.n < 0
        ELSE x.n * y.d > y.n * x.d

IsNumber(v) == v.k = "num"

----------------------------------------------------------------------------
(* Sequence helpers *)

Reverse(s) == [i \in 1..Len(s) |-> s[Len(s) + 1 - i]]

\* data.map(d => d.close)
ClosesOf(bars) == [i \in 1..Len(bars) |-> bars[i].close]

\* new Array(data.length).fill(null).map((_, i) => ({date: data[i].date, value: null}))
NullPoints(bars) == [i \in 1..Len(bars) |-> [date |-> bars[i].date, value |-> NULL]]

----------------------------------------------------------------------------
(* calculateMA *)

\* the running sum held by `sum` when result[i - 1] is assigned (i >= period)
RECURSIVE MASum_wrongWindow(_, _, _)
MASum_wrongWindow(bars, period, i) ==
    IF i = 0 THEN Num(0)
    ELSE IF i <= period THEN JAdd(MASum_wrongWindow(bars, period, i - 1), bars[i].close)
    ELSE JAdd(JSub(MASum_wrongWindow(bars, period, i - 1), bars[i - period + 1].close), bars[i].close)

RECURSIVE MASum(_, _, _)
MASum(bars, period, i) ==
    IF i = 0 THEN Num(0)
    ELSE IF i <= period THEN JAdd(MASum(bars, period, i - 1), bars[i].close)
    ELSE JAdd(JSub(MASum(bars, period, i - 1), bars[i - period].close), bars[i].close)

calculateMA_emptyWhenShort(bars, period) ==
    IF Len(bars) < period THEN <<>>
    ELSE [i \in 1..Len(bars) |->
            IF i < period THEN [date |-> bars[i].date, value |-> NULL]
            ELSE [date |-> bars[i].date,
                  value |-> JDiv(MASum(bars, period, i), Num(period))]]

calculateMA_reversing(bars, period) ==
    LET chrono == IF Len(bars) >= 2 /\ bars[1].date > bars[Len(bars)].date
                  THEN Reverse(bars) ELSE bars
        out == IF Len(chrono) < period THEN NullPoints(chrono)
               ELSE [i \in 1..Len(chrono) |->
                       IF i < period THEN [date |-> chrono[i].date, value |-> NULL]
                       ELSE [date |-> chrono[i].date,
                             value |-> JDiv(MASum(chrono, period, i), Num(period))]]
    IN  IF chrono = bars THEN out ELSE Reverse(out)

calculateMA_nullThroughPeriod(bars, period) ==
    IF Len(bars) < period THEN NullPoints(bars)
    ELSE [i \in 1..Len(bars) |->
            IF i <= period THEN [date |-> bars[i].date, value |-> NULL]
            ELSE [date |-> bars[i].date,
                  value |-> JDiv(MASum(bars, period, i), Num(period))]]

calculateMA(bars, period) ==
    IF Len(bars) < period THEN NullPoints(bars)
    ELSE [i \in 1..Len(bars) |->
            IF i < period THEN [date |-> bars[i].date, value |-> NULL]
            ELSE [date |-> bars[i].date,
                  value |-> JDiv(MASum(bars, period, i), Num(period))]]

----------------------------------------------------------------------------
(* calculateEMA *)

\* data.slice(0, period).reduce((a, b) => a + b), for period >= 1
RECURSIVE SumFirst(_, _)
SumFirst(xs, n) ==
    IF n = 1 THEN xs[1] ELSE JAdd(SumFirst(xs, n - 1), xs[n])

\* result[i - 1] of calculateEMA, for i >= period
RECURSIVE EMAAt_wrongMultiplier(_, _, _)
EMAAt_wrongMultiplier(xs, period, i) ==
    IF i = period THEN JDiv(SumFirst(xs, period), Num(period))
    ELSE LET multiplier == JDiv(Num(2), Num(period))
             prev == EMAAt_wrongMultiplier(xs, period, i - 1)
         IN  JAdd(JMul(JSub(xs[i], prev), multiplier), prev)

RECURSIVE EMAAt(_, _, _)
EMAAt(xs, period, i) ==
    IF i = period THEN JDiv(SumFirst(xs, period), Num(period))
    ELSE LET multiplier == JDiv(Num(2), Num(period + 1))
             prev == EMAAt(xs, period, i - 1)
         IN  JAdd(JMul(JSub(xs[i], prev), multiplier), prev)

calculateEMA(xs, period) ==
    IF Len(xs) < period THEN [i \in 1..Len(xs) |-> NULL]
    ELSE [i \in 1..Len(xs) |-> IF i < period THEN NULL ELSE EMAAt(xs, period, i)]

----------------------------------------------------------------------------
(* calculateMACD *)

\* the value returned by the emaFast.map callback for one index
MACDLineAt_swapped(fast, slow) ==
    IF fast.k # "null" /\ slow.k # "null" THEN JSub(slow, fast) ELSE NULL

MACDLineAt(fast, slow) ==
    IF fast.k # "null" /\ slow.k # "null" THEN JSub(fast, slow) ELSE NULL

\* macdLine.filter(v => v !== null)
SignalInput_nullsAsZero(macdLine) ==
    [i \in 1..Len(macdLine) |-> IF macdLine[i].k = "null" THEN Num(0) ELSE macdLine[i]]

SignalInput(macdLine) == SelectSeq(macdLine, LAMBDA v : v.k # "null")

\* the histogram assigned to a point whose macd and signal are both set
HistogramOf(macd, signal) ==
    IF macd.k # "undef" /\ signal.k # "undef" THEN JSub(macd, signal) ELSE UNDEF

\* the for loop over macdLine: i is the position about to be visited,
\* signalIndex the number of signalLine entries consumed so far
RECURSIVE MACDLoop(_, _, _, _, _)
MACDLoop(res, macdLine, signalLine, i, signalIndex) ==
    IF i > Len(macdLine) THEN res
    ELSE IF macdLine[i].k # "null" /\ signalIndex < Len(signalLine)
         THEN LET sig == signalLine[signalIndex + 1]
                  pt == [res[i] EXCEPT !.signal = sig,
                                       !.histogram = HistogramOf(res[i].macd, sig)]
              IN  MACDLoop([res EXCEPT ![i] = pt], macdLine, signalLine, i + 1, signalIndex + 1)
         ELSE MACDLoop(res, macdLine, signalLine, i + 1, signalIndex)

calculateMACD_nullsWhenShort(bars, fastPeriod, slowPeriod, signalPeriod) ==
    LET closes == ClosesOf(bars)
        emaFast == calculateEMA(closes, fastPeriod)
        emaSlow == calculateEMA(closes, slowPeriod)
        macdLine == [i \in 1..Len(bars) |-> MACDLineAt(emaFast[i], emaSlow[i])]
        res0 == [i \in 1..Len(bars) |->
                    [date |-> bars[i].date,
                     macd |-> IF macdLine[i].k # "null" THEN macdLine[i] ELSE UNDEF,
                     signal |-> UNDEF, histogram |-> UNDEF]]
        signalLine == calculateEMA(SignalInput(macdLine), signalPeriod)
    IN  MACDLoop(res0, macdLine, signalLine, 1, 0)

calculateMACD(bars, fastPeriod, slowPeriod, signalPeriod) ==
    IF Len(bars) < slowPeriod THEN <<>>
    ELSE
    LET closes == ClosesOf(bars)
        emaFast == calculateEMA(closes, fastPeriod)
        emaSlow == calculateEMA(closes, slowPeriod)
        macdLine == [i \in 1..Len(bars) |-> MACDLineAt(emaFast[i], emaSlow[i])]
        res0 == [i \in 1..Len(bars) |->
                    [date |-> bars[i].date,
                     macd |-> IF macdLine[i].k # "null" THEN macdLine[i] ELSE UNDEF,
                     signal |-> UNDEF, histogram |-> UNDEF]]
        signalLine == calculateEMA(SignalInput(macdLine), signalPeriod)
    IN  MACDLoop(res0, macdLine, signalLine, 1, 0)

----------------------------------------------------------------------------
(* calculateRSI *)

\* const change = data[i].close - data[i - 1].close, at position i >= 2
ChangeAt(bars, i) == JSub(bars[i].close, bars[i - 1].close)

\* gains and losses after the seeding loop has visited positions 2..i
RECURSIVE RSISeed(_, _)
RSISeed(bars, i) ==
    IF i = 1 THEN [gains |-> Num(0), losses |-> Num(0)]
    ELSE LET acc == RSISeed(bars, i - 1)
             change == ChangeAt(bars, i)
         IN  IF JGt(change, Num(0))
             THEN [acc EXCEPT !.gains = JAdd(acc.gains, change)]
             ELSE [acc EXCEPT !.losses = JSub(acc.losses, change)]

\* avgGain and avgLoss when result[i - 1] is assigned, for i >= period + 1
RECURSIVE RSIAvg_wrongWeight(_, _, _)
RSIAvg_wrongWeight(bars, period, i) ==
    IF i = period + 1
    THEN LET acc == RSISeed(bars, period + 1)
         IN  [avgGain |-> JDiv(acc.gains, Num(period)),
              avgLoss |-> JDiv(acc.losses, Num(period))]
    ELSE LET prev == RSIAvg_wrongWeight(bars, period, i - 1)
             change == ChangeAt(bars, i)
             currentGain == IF JGt(change, Num(0)) THEN change ELSE Num(0)
             currentLoss == IF JGt(change, Num(0)) THEN Num(0) ELSE JNeg(change)
         IN  [avgGain |-> JDiv(JAdd(JMul(prev.avgGain, Num(period)), currentGain), Num(period)),
              avgLoss |-> JDiv(JAdd(JMul(prev.avgLoss, Num(period)), currentLoss), Num(period))]

RECURSIVE RSIAvg(_, _, _)
RSIAvg(bars, period, i) ==
    IF i = period + 1
    THEN LET acc == RSISeed(bars, period + 1)
         IN  [avgGain |-> JDiv(acc.gains, Num(period)),
              avgLoss |-> JDiv(acc.losses, Num(period))]
    ELSE LET prev == RSIAvg(bars, period, i - 1)
             change == ChangeAt(bars, i)
             currentGain == IF JGt(change, Num(0)) THEN change ELSE Num(0)
             currentLoss == IF JGt(change, Num(0)) THEN Num(0) ELSE JNeg(change)
         IN  [avgGain |-> JDiv(JAdd(JMul(prev.avgGain, Num(period - 1)), currentGain), Num(period)),
              avgLoss |-> JDiv(JAdd(JMul(prev.avgLoss, Num(period - 1)), currentLoss), Num(period))]

\* rs = avgLoss > 0 ? avgGain / avgLoss : 0
RSOf_unguarded(avg) == JDiv(avg.avgGain, avg.avgLoss)

RSOf(avg) == IF JGt(avg.avgLoss, Num(0)) THEN JDiv(avg.avgGain, avg.avgLoss) ELSE Num(0)

\* 100 - (100 / (1 + rs))
RSIValue_noComplement(rs) == JDiv(Num(100), JAdd(Num(1), rs))

RSIValue(rs) == JSub(Num(100), JDiv(Num(100), JAdd(Num(1), rs)))

calculateRSI_seedOneEarly(bars, period) ==
    IF Len(bars) <= period THEN NullPoints(bars)
    ELSE [i \in 1..Len(bars) |->
            IF i < period THEN [date |-> bars[i].date, value |-> NULL]
            ELSE [date |-> bars[i].date,
                  value |-> RSIValue(RSOf(RSIAvg(bars, period, IF i = period THEN i + 1 ELSE i)))]]

calculateRSI_reversing(bars, period) ==
    LET chrono == IF Len(bars) >= 2 /\ bars[1].date > bars[Len(bars)].date
                  THEN Reverse(bars) ELSE bars
        out == IF Len(chrono) <= period THEN NullPoints(chrono)
               ELSE [i \in 1..Len(chrono) |->
                       IF i <= period THEN [date |-> chrono[i].date, value |-> NULL]
                       ELSE [date |-> chrono[i].date,
                             value |-> RSIValue(RSOf(RSIAvg(chrono, period, i)))]]
    IN  IF chrono = bars THEN out ELSE Reverse(out)

calculateRSI(bars, period) ==
    IF Len(bars) <= period THEN NullPoints(bars)
    ELSE [i \in 1..Len(bars) |->
            IF i <= period THEN [date |-> bars[i].date, value |-> NULL]
            ELSE [date |-> bars[i].date,
                  value |-> RSIValue(RSOf(RSIAvg(bars, period, i)))]]

----------------------------------------------------------------------------
(* Exceptions.  Arithmetic and array writes never throw; a TypeError is    *)
(* raised by reading .date or .close of data[j] when j is outside the      *)
(* array (data[j] is undefined) and by reduce() on an empty array.         *)

\* positions j at which calculateMA evaluates data[j].date or data[j].close
MAReads_noGuard(bars, period) ==
    (1..Len(bars)) \cup (1..period)
        \cup UNION {{i - period, i} : i \in (period + 1)..Len(bars)}

MAReads(bars, period) ==
    IF Len(bars) < period THEN 1..Len(bars)
    ELSE (1..Len(bars)) \cup (1..period)
            \cup UNION {{i - period, i} : i \in (period + 1)..Len(bars)}

MAThrows(bars, period) == \E j \in MAReads(bars, period) : j \notin 1..Len(bars)

\* calculateEMA throws when it reduces an empty slice: data.slice(0, period)
\* is empty when period <= 0 or data is empty, and the guard has already
\* returned for an empty data with period >= 1
EMAThrows(xs, period) ==
    /\ period <= 0
    /\ ~(Len(xs) < period)

\* calculateMACD reads data[j] only inside data.map; it throws when one of
\* its three calculateEMA calls does
MACDThrows(bars, fastPeriod, slowPeriod, signalPeriod) ==
    /\ ~(Len(bars) < slowPeriod)
    /\ \/ EMAThrows(ClosesOf(bars), fastPeriod)
       \/ EMAThrows(ClosesOf(bars), slowPeriod)
       \/ LET emaFast == calculateEMA(ClosesOf(bars), fastPeriod)
              emaSlow == calculateEMA(ClosesOf(bars), slowPeriod)
              macdLine == [i \in 1..Len(bars) |-> MACDLineAt(emaFast[i], emaSlow[i])]
          IN  EMAThrows(SignalInput(macdLine), signalPeriod)

\* positions j at which calculateRSI evaluates data[j].date or data[j].close
RSIReads_guardOffByOne(bars, period) ==
    IF Len(bars) < period THEN 1..Len(bars)
    ELSE (1..Len(bars)) \cup (1..(period + 1))
            \cup UNION {{i - 1, i} : i \in (period + 2)..Len(bars)}

RSIReads(bars, period) ==
    IF Len(bars) <= period THEN 1..Len(bars)
    ELSE (1..Len(bars)) \cup (1..(period + 1))
            \cup UNION {{i - 1, i} : i \in (period + 2)..Len(bars)}

RSIThrows(bars, period) == \E j \in RSIReads(bars, period) : j \notin 1..Len(bars)

----------------------------------------------------------------------------
(* Inputs *)

Closes == 0..MaxClose

Periods == 1..MaxPeriod

RECURSIVE SeqsOf(_, _)
SeqsOf(S, n) ==
    IF n = 0 THEN {<<>>}
    ELSE {Append(s, x) : s \in SeqsOf(S, n - 1), x \in S}

\* the close series of the documented scenario, oldest to newest
ScenarioCloses == <<10, 11, 12, 13, 14>>

CloseSeqs == (UNION {SeqsOf(Closes, n) : n \in 0..MaxLen}) \cup {ScenarioCloses}

\* bars on consecutive days 1..n, listed oldest first
BarsAsc(cs) == [i \in 1..Len(cs) |-> [date |-> i, close |-> Num(cs[i])]]

Inputs == {BarsAsc(cs) : cs \in CloseSeqs} \cup {Reverse(BarsAsc(cs)) : cs \in CloseSeqs}

IsOldestFirst(bars) == \A i \in 1..(Len(bars) - 1) : bars[i].date < bars[i + 1].date

IsNewestFirst(bars) == \A i \in 1..(Len(bars) - 1) : bars[i].date > bars[i + 1].date

\* closes as the type allows them: a number, NaN included
CloseValuesNaN == {Num(c) : c \in Closes} \cup {NaN}

BarsOf(vs) == [i \in 1..Len(vs) |-> [date |-> i, close |-> vs[i]]]

\* oldest-first series in which at least one close is NaN
InputsNaN ==
    {BarsOf(vs) : vs \in {w \in UNION {SeqsOf(CloseValuesNaN, n) : n \in 1..MaxLen} :
                              \E i \in 1..Len(w) : w[i] = NaN}}

Idle == [fn |-> "none", period |-> 0, fast |-> 0, slow |-> 0, signal |-> 0]

----------------------------------------------------------------------------
(* fetchHistoricalData and the state of TechnicalAnalysisView *)

MaxDay == 3

MaxRows == 2

HistoryLimit == 30

RocEpoch == 1911

Null == "null"

MsgNoSource == "no history in TSE, OTC or Emerging"

MsgGeneric == "cannot get history"

Sources == <<"TSE", "OTC", "EMERGING">>

\* one row of a source's answer: roc is the day of the row's ROC date (0 for
\* a row that is not an array with a y/m/d date and a string close), close is
\* what parseFloat makes of the field at the source's close index
RowCloses == {NaN, Num(0), Num(1), Num(2)}

Rows == [roc : 0..MaxDay, close : RowCloses]

RawSeqs == UNION {[1..n -> Rows] : n \in 0..MaxRows}

\* a two-month answer: 31 trading days, one of them listed twice, one unparsable
LongRows ==
    [i \in 1..33 |->
        IF i = 32 THEN [roc |-> 5, close |-> Num(2)]
        ELSE IF i = 33 THEN [roc |-> 32, close |-> NaN]
        ELSE [roc |-> i, close |-> Num(1)]]

NullPoint == [date |-> 0, close |-> NULL]

MapRow(item) ==
    IF item.roc = 0 THEN NullPoint
    ELSE [date |-> item.roc + RocEpoch, close |-> item.close]

IsValidPoint_zeroPasses(point) ==
    /\ point # NullPoint
    /\ point.close.k # "nan"

IsValidPoint(point) ==
    /\ point # NullPoint
    /\ point.close.k # "nan"
    /\ JGt(point.close, Num(0))

\* the values of new Map(ps.map(p => [p.date, p])) after the first i entries
RECURSIVE MapValues(_, _)
MapValues(ps, i) ==
    IF i = 0 THEN <<>>
    ELSE LET prev == MapValues(ps, i - 1)
         IN  IF \E j \in 1..Len(prev) : prev[j].date = ps[i].date
             THEN [j \in 1..Len(prev) |->
                      IF prev[j].date = ps[i].date THEN ps[i] ELSE prev[j]]
             ELSE Append(prev, ps[i])

RECURSIVE SortNewestFirst(_)
SortNewestFirst(ps) ==
    IF ps = <<>> THEN <<>>
    ELSE LET m == CHOOSE i \in 1..Len(ps) :
                     \A j \in 1..Len(ps) : ps[j].date <= ps[i].date
         IN  <<ps[m]>> \o SortNewestFirst(SubSeq(ps, 1, m - 1) \o SubSeq(ps, m + 1, Len(ps)))

Slice(ps, n) == SubSeq(ps, 1, IF Len(ps) < n THEN Len(ps) ELSE n)

\* lines 285-323: what the call settles with once a source has given rows
ParseHistory(rawData) ==
    LET historicalPoints == SelectSeq([i \in 1..Len(rawData) |-> MapRow(rawData[i])], IsValidPoint)
        uniquePoints == MapValues(historicalPoints, Len(historicalPoints))
    IN  IF historicalPoints = <<>>
        THEN [settled |-> "rejected", value |-> <<>>, reason |-> MsgGeneric]
        ELSE [settled |-> "fulfilled",
              value |-> Slice(SortNewestFirst(uniquePoints), HistoryLimit),
              reason |-> Null]

ViewInit == [historicalData |-> <<>>, isLoading |-> TRUE, error |-> Null]

HistIdle == [pc |-> "idle", source |-> 0, rawData |-> <<>>,
             settled |-> "pending", value |-> <<>>, reason |-> Null]

----------------------------------------------------------------------------
(* App: tabs, the analysis target and the news fetches in flight *)

MaxFetches == 2

StockNames == {"TSMC", "HonHai"}

Tabs == {"Market", "AI_Analysis"}

ApiKeys == {"", "key"}

NoArticle == [kind |-> "null", about |-> Null]

AppInit(key) ==
    [activeTab |-> "Market", analysisTarget |-> Null,
     analysisArticle |-> NoArticle, isFetchingNews |-> FALSE, apiKey |-> key]

NoFetches == [s \in StockNames |-> 0]

InFlight(fetches) == {s \in StockNames : fetches[s] > 0}

RECURSIVE CountAll(_, _)
CountAll(fetches, names) ==
    IF names = {} THEN 0
    ELSE LET s == CHOOSE x \in names : TRUE
         IN  fetches[s] + CountAll(fetches, names \ {s})

----------------------------------------------------------------------------
(* MarketView: the stock list, its loads and the merge of fetchData *)

MaxLoads == 2

Codes == {"2317", "2330"}

Quotes == [code : Codes, price : {10, 11}, yesterdayPrice : {10}, change : {0, 1}]

DistinctCodes(list) ==
    \A i \in 1..Len(list), j \in 1..Len(list) : i # j => list[i].code # list[j].code

\* the lists fetchStockData may resolve with
FetchLists == UNION {[1..n -> Quotes] : n \in 0..2}

\* the values the stocks state can hold
StockLists == {list \in FetchLists : DistinctCodes(list)}

CodeLists == {<<>>, <<"2330">>, <<"2317">>, <<"2330", "2317">>, <<"2317", "2330">>}

MsgMarket == "cannot get stock data"

\* codes.indexOf(c)
IndexOf(codes, c) ==
    IF \E i \in 1..Len(codes) : codes[i] = c
    THEN (CHOOSE i \in 1..Len(codes) :
             codes[i] = c /\ \A j \in 1..(i - 1) : codes[j] # c) - 1
    ELSE -1

\* data.sort((a, b) => codes.indexOf(a.code) - codes.indexOf(b.code)), stable
RECURSIVE SortByCodes(_, _)
SortByCodes(list, codes) ==
    IF list = <<>> THEN <<>>
    ELSE LET m == CHOOSE i \in 1..Len(list) :
                     /\ \A j \in 1..Len(list) :
                           IndexOf(codes, list[i].code) <= IndexOf(codes, list[j].code)
                     /\ \A j \in 1..(i - 1) :
                           IndexOf(codes, list[j].code) # IndexOf(codes, list[i].code)
         IN  <<list[m]>> \o SortByCodes(SubSeq(list, 1, m - 1) \o SubSeq(list, m + 1, Len(list)), codes)

CodesOf(list) == [i \in 1..Len(list) |-> list[i].code]

\* Array.from(new Set(cs)): the first occurrences, in order
RECURSIVE Unique(_)
Unique(cs) ==
    IF cs = <<>> THEN <<>>
    ELSE LET front == Unique(SubSeq(cs, 1, Len(cs) - 1))
             last == cs[Len(cs)]
         IN  IF \E i \in 1..Len(front) : front[i] = last THEN front
             ELSE Append(front, last)

Has(list, code) == \E i \in 1..Len(list) : list[i].code = code

\* currentStockData.find(s => s.code === code)
Find(list, code) ==
    list[CHOOSE i \in 1..Len(list) :
            list[i].code = code /\ \A j \in 1..(i - 1) : list[j].code # code]

\* newStocksMap.get(code): the last entry of the sorted data with that code
MapGet(list, code) ==
    list[CHOOSE i \in 1..Len(list) :
            list[i].code = code /\ \A j \in (i + 1)..Len(list) : list[j].code # code]

HasTraded(stock) == stock.price # stock.yesterdayPrice \/ stock.change # 0

IsPreMarket(stock) == stock.price = stock.yesterdayPrice /\ stock.change = 0

MergeOne_newAlwaysWins(currentStockData, sortedData, code) ==
    IF ~Has(sortedData, code) THEN Find(currentStockData, code)
    ELSE MapGet(sortedData, code)

MergeOne(currentStockData, sortedData, code) ==
    IF ~Has(sortedData, code) THEN Find(currentStockData, code)
    ELSE IF ~Has(currentStockData, code) THEN MapGet(sortedData, code)
    ELSE LET currentStock == Find(currentStockData, code)
             newStock == MapGet(sortedData, code)
         IN  IF HasTraded(currentStock) /\ IsPreMarket(newStock)
             THEN currentStock ELSE newStock

Merge(currentStockData, sortedData) ==
    LET allCodes == Unique(CodesOf(currentStockData) \o CodesOf(sortedData))
    IN  [i \in 1..Len(allCodes) |-> MergeOne(currentStockData, sortedData, allCodes[i])]

MarketInit(codes) ==
    [stocks |-> <<>>, intradayDataMap |-> {}, isLoading |-> TRUE, error |-> Null,
     codesToFetch |-> codes, fullStockList |-> 0,
     effectDeps |-> [codes |-> codes, full |-> 0]]

LoadIdle == [kind |-> "none", pc |-> "idle", aborted |-> FALSE, codes |-> <<>>,
             currentStockData |-> <<>>, data |-> <<>>, updated |-> <<>>]

NoLoads == [l \in 1..MaxLoads |-> LoadIdle]

Started(ls) == Cardinality({l \in 1..MaxLoads : ls[l].pc # "idle"})

----------------------------------------------------------------------------
(* The parts of the state and their resting values *)

viewVars == <<view, hist>>

appVars == <<app, newsFetches>>

marketVars == <<market, loads>>

uiVars == <<viewVars, appVars, marketVars>>

ViewIdle ==
    /\ view = ViewInit
    /\ hist = HistIdle

AppIdle ==
    /\ app = AppInit("")
    /\ newsFetches = NoFetches

MarketIdle ==
    /\ market = MarketInit(<<>>)
    /\ loads = NoLoads

UiIdle ==
    /\ ViewIdle
    /\ AppIdle
    /\ MarketIdle

taVars == <<data, call, result, threw>>

TaIdle ==
    /\ data = <<>>
    /\ call = Idle
    /\ result = <<>>
    /\ threw = FALSE

----------------------------------------------------------------------------
(* State machine: a caller holding one input series calls the functions *)

Init ==
    /\ data \in Inputs
    /\ call = Idle
    /\ result = <<>>
    /\ threw = FALSE
    /\ UiIdle

CallMA(p) ==
    /\ call.fn = "none"
    /\ call' = [Idle EXCEPT !.fn = "MA", !.period = p]
    /\ threw' = MAThrows(data, p)
    /\ result' = IF threw' THEN <<>> ELSE calculateMA(data, p)
    /\ UNCHANGED <<data, uiVars>>

\* calculateMACD writing macd, signal and histogram into the caller's bars
CallMACD_annotatesInput(f, sl, sg) ==
    /\ call.fn = "none"
    /\ call' = [Idle EXCEPT !.fn = "MACD", !.fast = f, !.slow = sl, !.signal = sg]
    /\ threw' = MACDThrows(data, f, sl, sg)
    /\ result' = IF threw' THEN <<>> ELSE calculateMACD(data, f, sl, sg)
    /\ data' = IF Len(result') = Len(data)
               THEN [i \in 1..Len(data) |->
                        [date |-> data[i].date, close |-> data[i].close,
                         macd |-> result'[i].macd, signal |-> result'[i].signal,
                         histogram |-> result'[i].histogram]]
               ELSE data
    /\ UNCHANGED uiVars

CallMACD(f, sl, sg) ==
    /\ call.fn = "none"
    /\ call' = [Idle EXCEPT !.fn = "MACD", !.fast = f, !.slow = sl, !.signal = sg]
    /\ threw' = MACDThrows(data, f, sl, sg)
    /\ result' = IF threw' THEN <<>> ELSE calculateMACD(data, f, sl, sg)
    /\ UNCHANGED <<data, uiVars>>

CallRSI(p) ==
    /\ call.fn = "none"
    /\ call' = [Idle EXCEPT !.fn = "RSI", !.period = p]
    /\ threw' = RSIThrows(data, p)
    /\ result' = IF threw' THEN <<>> ELSE calculateRSI(data, p)
    /\ UNCHANGED <<data, uiVars>>

\* calculateEMA applied to the closes, as calculateMACD applies it
CallEMA(p) ==
    /\ call.fn = "none"
    /\ call' = [Idle EXCEPT !.fn = "EMA", !.period = p]
    /\ threw' = EMAThrows(ClosesOf(data), p)
    /\ result' = IF threw' THEN <<>> ELSE calculateEMA(ClosesOf(data), p)
    /\ UNCHANGED <<data, uiVars>>

Return ==
    /\ call.fn # "none"
    /\ call' = Idle
    /\ result' = <<>>
    /\ threw' = FALSE
    /\ UNCHANGED <<data, uiVars>>

Next ==
    \/ \E p \in Periods : CallMA(p)
    \/ \E f \in Periods, sl \in Periods, sg \in Periods : CallMACD(f, sl, sg)
    \/ \E p \in Periods : CallRSI(p)
    \/ \E p \in Periods : CallEMA(p)
    \/ Return

Spec == Init /\ [][Next]_vars

\* the same caller, holding a series with a malformed (NaN) close
InitNaN ==
    /\ data \in InputsNaN
    /\ call = Idle
    /\ result = <<>>
    /\ threw = FALSE
    /\ UiIdle

SpecNaN == InitNaN /\ [][Next]_vars

----------------------------------------------------------------------------
(* State machine: TechnicalAnalysisView mounted for one stock *)

InitView ==
    /\ TaIdle
    /\ AppIdle
    /\ MarketIdle
    /\ view = ViewInit
    /\ hist = HistIdle

\* the mount effect calls fetchHistoricalData, which asks the first source
Mount ==
    /\ hist.pc = "idle"
    /\ hist' = [hist EXCEPT !.pc = "request", !.source = 1]
    /\ UNCHANGED <<view, taVars, appVars, marketVars>>

\* the two monthly answers of the source being tried arrive; rows is their
\* combinedData (empty when neither answer is ok, parses or carries rows)
SourceResponds(rows) ==
    /\ hist.pc = "request"
    /\ \/ /\ rows # <<>>
          /\ LET outcome == ParseHistory(rows)
             IN  hist' = [hist EXCEPT !.pc = "settled", !.rawData = rows,
                                      !.settled = outcome.settled,
                                      !.value = outcome.value,
                                      !.reason = outcome.reason]
       \/ /\ rows = <<>>
          /\ hist.source < Len(Sources)
          /\ hist' = [hist EXCEPT !.source = hist.source + 1]
       \/ /\ rows = <<>>
          /\ hist.source = Len(Sources)
          /\ hist' = [hist EXCEPT !.pc = "settled", !.source = 0,
                                  !.settled = "rejected", !.reason = MsgNoSource]
    /\ UNCHANGED <<view, taVars, appVars, marketVars>>

\* fetch() itself rejects (network failure); the catch rethrows
RequestFails ==
    /\ hist.pc = "request"
    /\ hist' = [hist EXCEPT !.pc = "settled", !.settled = "rejected",
                            !.reason = MsgGeneric]
    /\ UNCHANGED <<view, taVars, appVars, marketVars>>

\* the continuation of the effect's fetch without its finally block
ViewSettle_noFinally ==
    /\ hist.pc = "settled"
    /\ view' = IF hist.settled = "fulfilled"
               THEN [view EXCEPT !.historicalData = hist.value]
               ELSE [view EXCEPT !.error = hist.reason]
    /\ hist' = [hist EXCEPT !.pc = "done"]
    /\ UNCHANGED <<taVars, appVars, marketVars>>

\* the continuation of the effect's fetch: try or catch, then finally
ViewSettle ==
    /\ hist.pc = "settled"
    /\ view' = IF hist.settled = "fulfilled"
               THEN [view EXCEPT !.historicalData = hist.value, !.isLoading = FALSE]
               ELSE [view EXCEPT !.error = hist.reason, !.isLoading = FALSE]
    /\ hist' = [hist EXCEPT !.pc = "done"]
    /\ UNCHANGED <<taVars, appVars, marketVars>>

NextView ==
    \/ Mount
    \/ \E rows \in RawSeqs \cup {LongRows} : SourceResponds(rows)
    \/ RequestFails
    \/ ViewSettle

SpecView == InitView /\ [][NextView]_vars

\* the answers told apart by the view: none, one row (usable or not), many
BriefAnswers == {rows \in RawSeqs : Len(rows) <= 1} \cup {LongRows}

NextViewBrief ==
    \/ Mount
    \/ \E rows \in BriefAnswers : SourceResponds(rows)
    \/ RequestFails
    \/ ViewSettle

\* a request that is pending is answered or fails, and the continuation of a
\* settled promise is run by the event loop
SpecViewFair ==
    /\ InitView
    /\ [][NextViewBrief]_vars
    /\ WF_vars(Mount)
    /\ WF_vars(RequestFails \/ \E rows \in BriefAnswers : SourceResponds(rows))
    /\ WF_vars(ViewSettle)

\* the series handed to calculateMA, calculateMACD and calculateRSI
IndicatorInput == view.historicalData

----------------------------------------------------------------------------
(* State machine: App with its tabs and news fetches *)

InitApp ==
    /\ TaIdle
    /\ ViewIdle
    /\ MarketIdle
    /\ \E key \in ApiKeys : app = AppInit(key)
    /\ newsFetches = NoFetches

handleTabChange(tab) ==
    /\ app' = IF tab # "AI_Analysis"
              THEN [app EXCEPT !.analysisTarget = Null, !.analysisArticle = NoArticle,
                               !.activeTab = tab]
              ELSE [app EXCEPT !.activeTab = tab]
    /\ UNCHANGED <<newsFetches, taVars, viewVars, marketVars>>

\* called by MarketView, which is rendered on the Market tab only; runs up to
\* the await of fetchNewsWithGemini
handleStartAnalysis(stockName) ==
    /\ app.activeTab = "Market"
    /\ \/ /\ app.apiKey = ""
          /\ app' = [app EXCEPT !.activeTab = "AI_Analysis"]
          /\ UNCHANGED newsFetches
       \/ /\ app.apiKey # ""
          /\ CountAll(newsFetches, StockNames) < MaxFetches
          /\ app' = [app EXCEPT !.analysisTarget = stockName,
                                !.activeTab = "AI_Analysis",
                                !.isFetchingNews = TRUE,
                                !.analysisArticle = NoArticle]
          /\ newsFetches' = [newsFetches EXCEPT ![stockName] = @ + 1]
    /\ UNCHANGED <<taVars, viewVars, marketVars>>

\* the continuation after the await: try, then finally
NewsResolves(stockName) ==
    /\ newsFetches[stockName] > 0
    /\ newsFetches' = [newsFetches EXCEPT ![stockName] = @ - 1]
    /\ app' = [app EXCEPT !.analysisArticle = [kind |-> "article", about |-> stockName],
                          !.isFetchingNews = FALSE]
    /\ UNCHANGED <<taVars, viewVars, marketVars>>

\* the continuation after the await: catch (fetchNewsWithGemini rejects with
\* a plain Error, never an AbortError), then finally
NewsRejects(stockName) ==
    /\ newsFetches[stockName] > 0
    /\ newsFetches' = [newsFetches EXCEPT ![stockName] = @ - 1]
    /\ app' = [app EXCEPT !.analysisArticle = [kind |-> "error", about |-> stockName],
                          !.isFetchingNews = FALSE]
    /\ UNCHANGED <<taVars, viewVars, marketVars>>

\* AiAnalysisView, rendered on the AI tab only, saves a key
setApiKey(key) ==
    /\ app.activeTab = "AI_Analysis"
    /\ app' = [app EXCEPT !.apiKey = key]
    /\ UNCHANGED <<newsFetches, taVars, viewVars, marketVars>>

NextApp ==
    \/ \E tab \in Tabs : handleTabChange(tab)
    \/ \E stockName \in StockNames : handleStartAnalysis(stockName)
    \/ \E stockName \in StockNames : NewsResolves(stockName)
    \/ \E stockName \in StockNames : NewsRejects(stockName)
    \/ \E key \in ApiKeys : setApiKey(key)

SpecApp == InitApp /\ [][NextApp]_vars

----------------------------------------------------------------------------
(* State machine: MarketView, its load effect and its refresh interval *)

\* the dependencies of the load effect as of the current render
CurrentDeps == [codes |-> market.codesToFetch, full |-> market.fullStockList]

\* the slot the next load takes
NextSlot == Started(loads) + 1

\* the first synchronous part of fetchData(signal, codes, currentStockData)
BeginFetch(kind, codes, currentStockData) ==
    IF codes = <<>>
    THEN [LoadIdle EXCEPT !.kind = kind, !.pc = "returned"]
    ELSE [LoadIdle EXCEPT !.kind = kind, !.pc = "fetchStock", !.codes = codes,
                          !.currentStockData = currentStockData]

\* codesToFetch with nothing, one stock or two stocks to show
WatchedCodeLists == {<<>>, <<"2330">>, <<"2330", "2317">>}

InitMarket ==
    /\ TaIdle
    /\ ViewIdle
    /\ AppIdle
    /\ \E codes \in WatchedCodeLists : market = MarketInit(codes)
    /\ loads = NoLoads

\* the watchlist or the search changes codesToFetch
ChangeCodes(codes) ==
    /\ codes # market.codesToFetch
    /\ market' = [market EXCEPT !.codesToFetch = codes]
    /\ UNCHANGED <<loads, taVars, viewVars, appVars>>

\* loadFullList resolves (or falls back to the static list)
FullListLoaded ==
    /\ market.fullStockList = 0
    /\ market' = [market EXCEPT !.fullStockList = 1]
    /\ UNCHANGED <<loads, taVars, viewVars, appVars>>

\* the load effect re-runs after a render with changed dependencies: the
\* cleanup aborts the previous controller, then loadData starts
RunLoadEffect ==
    /\ market.effectDeps # CurrentDeps
    /\ LET aborted == [l \in 1..MaxLoads |->
                          IF loads[l].kind = "user"
                          THEN [loads[l] EXCEPT !.aborted = TRUE] ELSE loads[l]]
       IN  \/ /\ market.fullStockList = 0
              /\ market' = [market EXCEPT !.effectDeps = CurrentDeps]
              /\ loads' = aborted
           \/ /\ market.fullStockList > 0
              /\ NextSlot <= MaxLoads
              /\ market' = IF market.codesToFetch = <<>>
                           THEN [market EXCEPT !.effectDeps = CurrentDeps,
                                               !.isLoading = TRUE, !.error = Null,
                                               !.stocks = <<>>, !.intradayDataMap = {}]
                           ELSE [market EXCEPT !.effectDeps = CurrentDeps,
                                               !.isLoading = TRUE, !.error = Null]
              /\ loads' = [aborted EXCEPT ![NextSlot] =
                              BeginFetch("user", market.codesToFetch, market.stocks)]
    /\ UNCHANGED <<taVars, viewVars, appVars>>

\* the interval fires; its controller is never aborted
RefreshTick ==
    /\ market.codesToFetch # <<>>
    /\ market.fullStockList > 0
    /\ NextSlot <= MaxLoads
    /\ loads' = [loads EXCEPT ![NextSlot] =
                    BeginFetch("refresh", market.codesToFetch, market.stocks)]
    /\ UNCHANGED <<market, taVars, viewVars, appVars>>

\* fetchStockData resolves with fetched
StockDataArrives(l, fetched) ==
    /\ loads[l].pc = "fetchStock"
    /\ loads' = [loads EXCEPT ![l] =
                    IF loads[l].aborted
                    THEN [loads[l] EXCEPT !.pc = "returned",
                                          !.updated = loads[l].currentStockData]
                    ELSE [loads[l] EXCEPT !.pc = "intraday", !.data = fetched]]
    /\ UNCHANGED <<market, taVars, viewVars, appVars>>

StockDataFails(l) ==
    /\ loads[l].pc = "fetchStock"
    /\ loads' = [loads EXCEPT ![l].pc = "threw"]
    /\ UNCHANGED <<market, taVars, viewVars, appVars>>

\* the intraday fetches resolve: the chart map is extended and the merge made
IntradayArrives(l) ==
    /\ loads[l].pc = "intraday"
    /\ IF loads[l].aborted
       THEN /\ loads' = [loads EXCEPT ![l].pc = "returned",
                                      ![l].updated = loads[l].currentStockData]
            /\ UNCHANGED market
       ELSE LET sortedData == SortByCodes(loads[l].data, loads[l].codes)
            IN  /\ loads' = [loads EXCEPT
                                ![l].pc = "returned",
                                ![l].data = sortedData,
                                ![l].updated = Merge(loads[l].currentStockData, sortedData)]
                /\ market' = [market EXCEPT !.intradayDataMap =
                                 @ \cup {sortedData[i].code : i \in 1..Len(sortedData)}]
    /\ UNCHANGED <<taVars, viewVars, appVars>>

IntradayFails(l) ==
    /\ loads[l].pc = "intraday"
    /\ loads' = [loads EXCEPT ![l].pc = "threw"]
    /\ UNCHANGED <<market, taVars, viewVars, appVars>>

\* a call that has returned: its locals are gone
Finished(load) == [LoadIdle EXCEPT !.kind = load.kind, !.pc = "done",
                                   !.aborted = load.aborted]

\* loadData writing whether or not its controller was aborted
LoadContinues_unguarded(l) ==
    /\ loads[l].pc \in {"returned", "threw"}
    /\ loads' = [loads EXCEPT ![l] = Finished(loads[l])]
    /\ market' = IF loads[l].kind = "refresh"
                 THEN IF loads[l].pc = "returned"
                      THEN [market EXCEPT !.stocks = loads[l].updated] ELSE market
                 ELSE IF loads[l].pc = "returned"
                      THEN [market EXCEPT !.stocks = loads[l].updated, !.isLoading = FALSE]
                      ELSE [market EXCEPT !.error = MsgMarket, !.isLoading = FALSE]
    /\ UNCHANGED <<taVars, viewVars, appVars>>

\* the continuation of the caller of fetchData: loadData (try or catch, then
\* finally, each behind !controller.signal.aborted) or the interval callback
LoadContinues(l) ==
    /\ loads[l].pc \in {"returned", "threw"}
    /\ loads' = [loads EXCEPT ![l] = Finished(loads[l])]
    /\ market' = IF loads[l].kind = "refresh"
                 THEN IF loads[l].pc = "returned"
                      THEN [market EXCEPT !.stocks = loads[l].updated] ELSE market
                 ELSE IF loads[l].aborted THEN market
                 ELSE IF loads[l].pc = "returned"
                      THEN [market EXCEPT !.stocks = loads[l].updated, !.isLoading = FALSE]
                      ELSE [market EXCEPT !.error = MsgMarket, !.isLoading = FALSE]
    /\ UNCHANGED <<taVars, viewVars, appVars>>

\* the answers told apart by the loads: none, one quote, two quotes
MarketAnswers ==
    {<<>>,
     <<[code |-> "2330", price |-> 11, yesterdayPrice |-> 10, change |-> 1]>>,
     <<[code |-> "2317", price |-> 10, yesterdayPrice |-> 10, change |-> 0],
       [code |-> "2330", price |-> 10, yesterdayPrice |-> 10, change |-> 0]>>}

NextMarket ==
    \/ \E codes \in WatchedCodeLists : ChangeCodes(codes)
    \/ FullListLoaded
    \/ RunLoadEffect
    \/ RefreshTick
    \/ \E l \in 1..MaxLoads, fetched \in MarketAnswers : StockDataArrives(l, fetched)
    \/ \E l \in 1..MaxLoads : StockDataFails(l)
    \/ \E l \in 1..MaxLoads : IntradayArrives(l)
    \/ \E l \in 1..MaxLoads : IntradayFails(l)
    \/ \E l \in 1..MaxLoads : LoadContinues(l)

SpecMarket == InitMarket /\ [][NextMarket]_vars

\* one refresh of any stock list the view can hold: the merge of fetchData
InitMerge ==
    /\ TaIdle
    /\ ViewIdle
    /\ AppIdle
    /\ \E codes \in CodeLists \ {<<>>}, list \in StockLists :
          market = [MarketInit(codes) EXCEPT
                       !.stocks = list, !.isLoading = FALSE, !.fullStockList = 1,
                       !.effectDeps = [codes |-> codes, full |-> 1]]
    /\ loads = NoLoads

\* the interval firing while no refresh is under way
RefreshOnce ==
    /\ NextSlot = 1
    /\ RefreshTick

NextMerge ==
    \/ RefreshOnce
    \/ \E fetched \in FetchLists : StockDataArrives(1, fetched)
    \/ StockDataFails(1)
    \/ IntradayArrives(1)
    \/ IntradayFails(1)
    \/ LoadContinues(1)

SpecMerge == InitMerge /\ [][NextMerge]_vars

----------------------------------------------------------------------------
(* Vocabulary of the properties *)

\* the integer close of the bar at position i (input closes are integers)
CloseInt(bars, i) == bars[i].close.n

RECURSIVE SumCloseInts(_, _)
SumCloseInts(bars, S) ==
    IF S = {} THEN 0
    ELSE LET j == CHOOSE x \in S : TRUE
         IN  CloseInt(bars, j) + SumCloseInts(bars, S \ {j})

\* arithmetic mean of the closes at the positions of S
MeanOfCloses(bars, S) == Rat(SumCloseInts(bars, S), Cardinality(S))

\* positions of the bars dated strictly before / after the bar at position i
OlderThan(bars, i) == {j \in 1..Len(bars) : bars[j].date < bars[i].date}

NewerThan(bars, i) == {j \in 1..Len(bars) : bars[j].date > bars[i].date}

\* the bar at i and the p - 1 bars chronologically before it / after it
TrailingWindow(bars, i, p) ==
    {j \in 1..Len(bars) : bars[j].date <= bars[i].date /\ bars[j].date > bars[i].date - p}

LeadingWindow(bars, i, p) ==
    {j \in 1..Len(bars) : bars[j].date >= bars[i].date /\ bars[j].date < bars[i].date + p}

ValuesOf(points) == [i \in 1..Len(points) |-> points[i].value]

StrictlyDecreasing(bars) ==
    \A i \in 2..Len(bars) : CloseInt(bars, i) < CloseInt(bars, i - 1)

\* exact difference of two numeric values
Diff(a, b) == Rat(a.n * b.d - b.n * a.d, a.d * b.d)

----------------------------------------------------------------------------
(* Properties of calculateMA *)

\* C1: for a series given oldest to newest and every period >= 1, calculateMA
\* yields null at the first period-1 points and at every later index i the
\* arithmetic mean of the closes at i-period+1..i; closes 10,11,12,13,14 with
\* period 3 give null, null, 11, 12, 13.
C1_MATrailingMean ==
    (call.fn = "MA" /\ IsOldestFirst(data)) =>
        /\ Len(result) = Len(data)
        /\ \A i \in 1..Len(data) :
              result[i].value =
                 IF i < call.period THEN NULL
                 ELSE MeanOfCloses(data, (i - call.period + 1)..i)
        /\ (data = BarsAsc(ScenarioCloses) /\ call.period = 3) =>
              ValuesOf(result) = <<NULL, NULL, Num(11), Num(12), Num(13)>>

C1_Witness ==
    /\ call.fn = "MA"
    /\ call.period = 3
    /\ data = BarsAsc(ScenarioCloses)
    /\ ValuesOf(result) = <<NULL, NULL, Num(11), Num(12), Num(13)>>

\* C2: calculateMA returns exactly one point per input bar, in input order,
\* and the point at position i carries the date of the input bar at i.
C2_MAOnePointPerBar ==
    call.fn = "MA" =>
        /\ Len(result) = Len(data)
        /\ \A i \in 1..Len(data) : result[i].date = data[i].date

C2_Witness ==
    /\ call.fn = "MA"
    /\ Len(data) >= 2
    /\ call.period > Len(data)
    /\ Len(result) = Len(data)
    /\ result[2].date = data[2].date

----------------------------------------------------------------------------
(* Properties of calculateMACD *)

\* C4 as stated: at every point of a calculateMACD result the histogram is
\* present only if macd and signal are both numbers there, and then it is
\* macd - signal; where macd or signal is null or absent it is absent.
C4_HistogramOnlyWhenBothNumbers ==
    call.fn = "MACD" =>
        \A i \in 1..Len(result) :
            IF IsNumber(result[i].macd) /\ IsNumber(result[i].signal)
            THEN result[i].histogram = Diff(result[i].macd, result[i].signal)
            ELSE result[i].histogram = UNDEF

\* C8: calculateMACD returns the empty sequence when the input has fewer
\* than slowPeriod bars, and otherwise one point per input bar, in input
\* order, each with the date of the bar at the same position.
C8_MACDEmptyOrOnePointPerBar ==
    call.fn = "MACD" =>
        IF Len(data) < call.slow THEN result = <<>>
        ELSE /\ Len(result) = Len(data)
             /\ \A i \in 1..Len(data) : result[i].date = data[i].date

C8_Witness ==
    /\ call.fn = "MACD"
    /\ Len(data) >= 1
    /\ Len(data) < call.slow
    /\ call.fast <= Len(data)
    /\ result = <<>>

\* C9: for chronological input, macd is defined at index i exactly when the
\* fast and the slow EMA of the closes are both defined at i, and then it is
\* EMA_fast[i] - EMA_slow[i]; elsewhere macd is absent.  For fastPeriod <=
\* slowPeriod the defined indices are exactly i >= slowPeriod - 1.
C9_MACDIsFastMinusSlow ==
    (call.fn = "MACD" /\ IsOldestFirst(data) /\ Len(data) >= call.slow) =>
        LET emaFast == calculateEMA(ClosesOf(data), call.fast)
            emaSlow == calculateEMA(ClosesOf(data), call.slow)
        IN  /\ Len(result) = Len(data)
            /\ \A i \in 1..Len(data) :
                  /\ result[i].macd =
                        IF IsNumber(emaFast[i]) /\ IsNumber(emaSlow[i])
                        THEN Diff(emaFast[i], emaSlow[i])
                        ELSE UNDEF
                  /\ (call.fast <= call.slow) =>
                        (IsNumber(result[i].macd) <=> i >= call.slow)

C9_Witness ==
    /\ call.fn = "MACD"
    /\ IsOldestFirst(data)
    /\ call.fast < call.slow
    /\ Len(data) > call.slow
    /\ result[call.slow - 1].macd = UNDEF
    /\ IsNumber(result[call.slow].macd)
    /\ result[call.slow].macd # Num(0)
    /\ result[call.slow].macd =
          Diff(calculateEMA(ClosesOf(data), call.fast)[call.slow],
               calculateEMA(ClosesOf(data), call.slow)[call.slow])

\* positions of the result that carry a macd value, in order
MacdPositions == SelectSeq([i \in 1..Len(result) |-> i], LAMBDA i : result[i].macd # UNDEF)

\* the defined macd values only, in order
CompactMacd == [k \in 1..Len(MacdPositions) |-> result[MacdPositions[k]].macd]

\* C10: the signal line is the EMA of period signalPeriod of the defined
\* macd values only, mapped back in order onto the bars that have a macd
\* value; the first numeric signal is at the signalPeriod-th such bar (index
\* slowPeriod + signalPeriod - 2 when fastPeriod <= slowPeriod) and is the
\* plain mean of the first signalPeriod macd values; bars without macd are
\* skipped, not counted as zero.
C10_SignalIsEMAOfDefinedMacd ==
    (call.fn = "MACD" /\ IsOldestFirst(data) /\ Len(data) >= call.slow) =>
        LET pos == MacdPositions
            compact == CompactMacd
            sig == calculateEMA(compact, call.signal)
        IN  /\ \A k \in 1..Len(pos) : result[pos[k]].signal = sig[k]
            /\ \A i \in 1..Len(result) :
                  result[i].macd = UNDEF => result[i].signal = UNDEF
            /\ \A k \in 1..Len(pos) : IsNumber(result[pos[k]].signal) <=> k >= call.signal
            /\ Len(pos) >= call.signal =>
                  /\ result[pos[call.signal]].signal =
                        JDiv(SumFirst(compact, call.signal), Num(call.signal))
                  /\ (call.fast <= call.slow) =>
                        pos[call.signal] = call.slow + call.signal - 1

C10_Witness ==
    /\ call.fn = "MACD"
    /\ IsOldestFirst(data)
    /\ call.fast < call.slow
    /\ call.signal >= 2
    /\ Len(data) >= call.slow + call.signal
    /\ result[call.slow - 1].macd = UNDEF
    /\ result[call.slow + call.signal - 2].signal = NULL
    /\ IsNumber(result[call.slow + call.signal - 1].signal)
    /\ result[call.slow + call.signal - 1].signal # Num(0)
    /\ IsNumber(result[call.slow + call.signal].signal)

----------------------------------------------------------------------------
(* Properties of calculateRSI *)

\* no close falls between positions 1 and i: the average loss at i is 0
NoLossUpTo(bars, i) == \A j \in 2..i : CloseInt(bars, j) >= CloseInt(bars, j - 1)

\* C5 as stated: wherever the smoothed average loss is 0 at a computable
\* point of calculateRSI (rising or constant closes), the value is 100.
C5_ZeroLossGives100 ==
    (call.fn = "RSI" /\ IsOldestFirst(data) /\ Len(data) > call.period) =>
        \A i \in (call.period + 1)..Len(data) :
            NoLossUpTo(data, i) => result[i].value = Num(100)

\* C6: for a strictly decreasing close series with more than period bars
\* every non-null value returned by calculateRSI is 0.
C6_DecreasingGivesZero ==
    (/\ call.fn = "RSI"
     /\ IsOldestFirst(data)
     /\ Len(data) > call.period
     /\ StrictlyDecreasing(data)) =>
        \A i \in 1..Len(result) :
            result[i].value # NULL => result[i].value = Num(0)

C6_Witness ==
    /\ call.fn = "RSI"
    /\ IsOldestFirst(data)
    /\ StrictlyDecreasing(data)
    /\ Len(data) >= call.period + 2
    /\ result[call.period + 1].value = Num(0)
    /\ result[Len(data)].value = Num(0)

\* C7: calculateRSI returns one point per input bar; the first period points
\* in chronological order are null and every index >= period is non-null;
\* with period bars or fewer (the empty input included) all values are null.
C7_RSINullPrefix ==
    (call.fn = "RSI" /\ IsOldestFirst(data)) =>
        /\ Len(result) = Len(data)
        /\ \A i \in 1..Len(data) :
              IF Len(data) <= call.period \/ i <= call.period
              THEN result[i].value = NULL
              ELSE result[i].value # NULL

C7_Witness ==
    /\ call.fn = "RSI"
    /\ IsOldestFirst(data)
    /\ call.period >= 2
    /\ Len(data) > call.period + 1
    /\ result[call.period].value = NULL
    /\ result[call.period + 1].value # NULL
    /\ result[Len(data)].value # NULL

----------------------------------------------------------------------------
(* Reversal, period 1 and undersized input *)

\* the series with the same closes at the same positions, dated oldest first
AscDates(bars) == [i \in 1..Len(bars) |-> [bars[i] EXCEPT !.date = i]]

\* the points of out, carrying the dates of bars position by position
WithDatesOf(out, bars) == [i \in 1..Len(out) |-> [out[i] EXCEPT !.date = bars[i].date]]

C12_MAPeriodOneIsClose ==
    (call.fn = "MA" /\ call.period = 1) =>
        /\ Len(result) = Len(data)
        /\ \A i \in 1..Len(data) :
              /\ result[i].value = data[i].close
              /\ result[i].value # NULL

C12_Witness ==
    /\ call.fn = "MA"
    /\ call.period = 1
    /\ Len(data) >= 3
    /\ data[1].close # data[2].close
    /\ data[2].close # data[3].close
    /\ ValuesOf(result) = ClosesOf(data)

\* C13: when the input has fewer bars than period (the empty input included)
\* calculateMA returns a series of the input's length whose values are all
\* null.
C13_MAUndersizedAllNull ==
    (call.fn = "MA" /\ Len(data) < call.period) =>
        /\ ~threw
        /\ Len(result) = Len(data)
        /\ \A i \in 1..Len(result) : result[i].value = NULL

C13_Witness ==
    /\ call.fn = "MA"
    /\ Len(data) = 2
    /\ call.period = 3
    /\ ~threw
    /\ ValuesOf(result) = <<NULL, NULL>>

----------------------------------------------------------------------------
(* Malformed closes, exceptions and frame *)

\* positions of the NaN closes of a series
NaNPositions(bars) == {j \in 1..Len(bars) : bars[j].close.k = "nan"}

\* C14 as stated: no output point of calculateMA, calculateMACD or
\* calculateRSI carries a NaN value; what derives from a NaN close is null.
C14_NoNaNInOutput ==
    (call.fn # "none" /\ ~threw) =>
        \A i \in 1..Len(result) :
            IF call.fn = "MACD"
            THEN /\ result[i].macd.k # "nan"
                 /\ result[i].signal.k # "nan"
                 /\ result[i].histogram.k # "nan"
            ELSE IF call.fn = "EMA" THEN result[i].k # "nan"
            ELSE result[i].value.k # "nan"

\* C15 as stated: with a single NaN close at index k, every calculateMA
\* output at an index >= k + period whose trailing window holds only valid
\* closes is the mean of that window.
C15_MARecoversAfterNaN ==
    (call.fn = "MA" /\ ~threw /\ Cardinality(NaNPositions(data)) = 1) =>
        LET k == CHOOSE j \in NaNPositions(data) : TRUE
        IN  \A i \in 1..Len(data) :
               (i >= k + call.period) =>
                   result[i].value = MeanOfCloses(data, (i - call.period + 1)..i)

\* C16: for every input series (empty, undersized or full) and every period
\* >= 1, calculateMA, calculateMACD and calculateRSI return normally: no
\* exception leaves the module.
C16_NoException ==
    call.fn # "none" =>
        /\ ~threw
        /\ (call.fn = "MACD" /\ Len(data) < call.slow) \/ Len(result) = Len(data)

C16_Witness ==
    /\ call.fn = "RSI"
    /\ Len(data) >= 1
    /\ Len(data) = call.period
    /\ ~threw
    /\ Len(result) = Len(data)

----------------------------------------------------------------------------
(* The recurrences of calculateRSI and calculateEMA *)

\* exact rational arithmetic of the properties
Plus(a, b) == Rat(a.n * b.d + b.n * a.d, a.d * b.d)

Times(a, b) == Rat(a.n * b.n, a.d * b.d)

Quot(a, b) == Rat(a.n * b.d, a.d * b.n)

Max0(x) == IF x > 0 THEN x ELSE 0

\* the close-to-close delta arriving at position j >= 2
Delta(bars, j) == CloseInt(bars, j) - CloseInt(bars, j - 1)

RECURSIVE SumOver(_, _, _)
SumOver(f(_), lo, hi) == IF lo > hi THEN 0 ELSE f(hi) + SumOver(f, lo, hi - 1)

\* Wilder's averages at position i > p: the seed is the mean of the first p
\* gains (losses), every later bar folds its gain (loss) in with weight 1/p
RECURSIVE WilderGain(_, _, _)
WilderGain(bars, p, i) ==
    IF i = p + 1
    THEN LET g(j) == Max0(Delta(bars, j)) IN Rat(SumOver(g, 2, p + 1), p)
    ELSE Quot(Plus(Times(WilderGain(bars, p, i - 1), Num(p - 1)),
                   Num(Max0(Delta(bars, i)))), Num(p))

RECURSIVE WilderLoss(_, _, _)
WilderLoss(bars, p, i) ==
    IF i = p + 1
    THEN LET l(j) == Max0(-Delta(bars, j)) IN Rat(SumOver(l, 2, p + 1), p)
    ELSE Quot(Plus(Times(WilderLoss(bars, p, i - 1), Num(p - 1)),
                   Num(Max0(-Delta(bars, i)))), Num(p))

\* C21: calculateRSI seeds avgGain and avgLoss with the sums of the positive
\* deltas and of the magnitudes of the negative deltas over the first period
\* deltas, each divided by period, updates them for every later bar by
\* avg = (avg*(period-1) + current)/period with current gain max(delta,0)
\* and current loss max(-delta,0), and reports 100 - 100/(1 + avgGain/avgLoss)
\* wherever avgLoss > 0.
C21_RSIWilderSmoothing ==
    (call.fn = "RSI" /\ IsOldestFirst(data) /\ Len(data) > call.period) =>
        \A i \in (call.period + 1)..Len(data) :
            LET G == WilderGain(data, call.period, i)
                L == WilderLoss(data, call.period, i)
            IN  L.n > 0 =>
                   result[i].value = Diff(Num(100), Quot(Num(100), Plus(Num(1), Quot(G, L))))

C21_Witness ==
    /\ call.fn = "RSI"
    /\ IsOldestFirst(data)
    /\ call.period >= 2
    /\ Len(data) >= call.period + 2
    /\ WilderGain(data, call.period, Len(data)).n > 0
    /\ WilderLoss(data, call.period, Len(data)).n > 0
    /\ WilderLoss(data, call.period, Len(data)) # WilderLoss(data, call.period, Len(data) - 1)
    /\ IsNumber(result[Len(data)].value)
    /\ result[Len(data)].value \notin {Num(0), Num(100)}

\* C22: for finite non-negative closes and every period >= 1 every non-null
\* value of calculateRSI is a number in 0..100, never NaN or Infinity, also
\* where the average loss is 0 (no division by zero).
C22_RSIInRange ==
    call.fn = "RSI" =>
        \A i \in 1..Len(result) :
            result[i].value # NULL =>
                /\ IsNumber(result[i].value)
                /\ result[i].value.n >= 0
                /\ result[i].value.n <= 100 * result[i].value.d

C22_Witness ==
    /\ call.fn = "RSI"
    /\ IsOldestFirst(data)
    /\ Len(data) >= call.period + 2
    /\ WilderLoss(data, call.period, call.period + 1).n = 0
    /\ WilderGain(data, call.period, call.period + 1).n = 0
    /\ WilderLoss(data, call.period, Len(data)).n > 0
    /\ IsNumber(result[call.period + 1].value)
    /\ IsNumber(result[Len(data)].value)

\* C29: calculateEMA returns one entry per input value: null below index
\* period-1, the plain mean of the first period values at index period-1,
\* and (x[i] - ema[i-1]) * 2/(period+1) + ema[i-1] at every i >= period;
\* every entry is null when there are fewer than period values.
C29_EMARecurrence ==
    call.fn = "EMA" =>
        /\ ~threw
        /\ Len(result) = Len(data)
        /\ \A i \in 1..Len(data) :
              result[i] =
                 IF Len(data) < call.period \/ i < call.period THEN NULL
                 ELSE IF i = call.period THEN MeanOfCloses(data, 1..call.period)
                 ELSE Plus(Times(Diff(data[i].close, result[i - 1]),
                                 Rat(2, call.period + 1)),
                           result[i - 1])

C29_Witness ==
    /\ call.fn = "EMA"
    /\ IsOldestFirst(data)
    /\ call.period >= 2
    /\ Len(data) >= call.period + 2
    /\ result[call.period - 1] = NULL
    /\ result[call.period] = MeanOfCloses(data, 1..call.period)
    /\ IsNumber(result[Len(data)])
    /\ result[Len(data)] # result[Len(data) - 1]
    /\ result[Len(data)] # data[Len(data)].close

----------------------------------------------------------------------------
(* fetchHistoricalData and TechnicalAnalysisView *)

\* the rows of a source's answer that parse to a date and a finite close > 0
UsableRows(rawData) ==
    {i \in 1..Len(rawData) :
        /\ rawData[i].roc # 0
        /\ rawData[i].close.k = "num"
        /\ rawData[i].close.n > 0}

\* C23: the series TechnicalAnalysisView hands to calculateMA, calculateMACD
\* and calculateRSI is sorted oldest to newest, as those functions document:
\* what fetchHistoricalData returned reaches them in ascending date order.
C23_IndicatorInputOldestFirst ==
    hist.pc = "done" => IsOldestFirst(IndicatorInput)

\* C24: a series returned by fetchHistoricalData has at most 30 points, no
\* date twice, dates strictly descending and every close a number above 0;
\* with no valid point from any source the call rejects and returns nothing.
C24_HistorySeriesWellFormed ==
    /\ hist.settled = "fulfilled" =>
          /\ Len(hist.value) >= 1
          /\ Len(hist.value) <= 30
          /\ \A i \in 1..Len(hist.value), j \in 1..Len(hist.value) :
                i < j => hist.value[i].date > hist.value[j].date
          /\ \A i \in 1..Len(hist.value) :
                /\ hist.value[i].close.k = "num"
                /\ hist.value[i].close.n > 0
    /\ (hist.settled # "pending" /\ UsableRows(hist.rawData) = {}) =>
          /\ hist.settled = "rejected"
          /\ hist.value = <<>>

C24_Witness ==
    /\ hist.settled = "fulfilled"
    /\ Len(hist.value) = 30
    /\ Cardinality(UsableRows(hist.rawData)) > 30
    /\ \E i \in 1..Len(hist.rawData) : hist.rawData[i].close.k = "nan"
    /\ hist.value[1].date > hist.value[2].date

\* C28: the history fetch started on mount ends with isLoading false; when
\* it resolves historicalData is the fetched series and error is still null,
\* when it rejects error is its message and historicalData is still empty.
C28_MountFetchSettles ==
    /\ [](hist.pc = "done" =>
            /\ view.isLoading = FALSE
            /\ hist.settled = "fulfilled" =>
                  /\ view.historicalData = hist.value
                  /\ view.error = Null
            /\ hist.settled = "rejected" =>
                  /\ view.error = hist.reason
                  /\ view.error # Null
                  /\ view.historicalData = <<>>)
    /\ [](hist.pc # "done" => view = ViewInit)
    /\ (hist.pc = "request") ~> (hist.pc = "done" /\ view.isLoading = FALSE)

C28_Witness ==
    /\ hist.pc = "done"
    /\ hist.settled = "rejected"
    /\ view.isLoading = FALSE
    /\ view.error = MsgNoSource
    /\ view.historicalData = <<>>

----------------------------------------------------------------------------
(* App *)

\* C27: whenever analysisArticle is non-null it is the article or the error
\* text fetched for the stock analysisTarget names, and isFetchingNews is
\* true while a news fetch started by handleStartAnalysis is in flight.
C27_ArticleMatchesTarget ==
    /\ app.analysisArticle.kind # "null" =>
          /\ app.analysisTarget # Null
          /\ app.analysisArticle.about = app.analysisTarget
    /\ InFlight(newsFetches) # {} => app.isFetchingNews

----------------------------------------------------------------------------
(* MarketView *)

\* a later user-driven load has been started
Superseded(l) == \E k \in (l + 1)..MaxLoads : loads[k].kind = "user"

\* C25: a user-driven load whose effect has been cleaned up (its controller
\* aborted) never afterwards writes stocks, error or isLoading; only the most
\* recently started user-driven load can update them.
C25_AbortedLoadNeverWrites ==
    /\ [](\A l \in 1..MaxLoads :
             (loads[l].kind = "user" /\ Superseded(l)) => loads[l].aborted)
    /\ [][\A l \in 1..MaxLoads :
             (/\ loads[l].kind = "user"
              /\ loads'[l].pc # loads[l].pc
              /\ (loads[l].aborted \/ Superseded(l)))
             => /\ market'.stocks = market.stocks
                /\ market'.error = market.error
                /\ market'.isLoading = market.isLoading]_vars

C25_Witness ==
    \E l \in 1..MaxLoads, k \in 1..MaxLoads :
        /\ l < k
        /\ loads[l].kind = "user" /\ loads[l].aborted /\ loads[l].pc = "done"
        /\ loads[k].kind = "user" /\ ~loads[k].aborted /\ loads[k].pc = "done"
        /\ market.isLoading = FALSE
        /\ market.stocks # <<>>

\* the quote fetchData's Map holds for a code: the last one in the sorted data
FetchedFor(list, code) ==
    {list[j] : j \in {i \in 1..Len(list) :
                         list[i].code = code /\ \A h \in (i + 1)..Len(list) : list[h].code # code}}

HeldFor(list, code) == {list[j] : j \in {i \in 1..Len(list) : list[i].code = code}}

\* C26: the merge of a refresh into the current stock list keeps every code
\* at most once, drops no code that was present, keeps a quote that has
\* traded (price != yesterdayPrice or change != 0) when the fetched one looks
\* pre-market (price = yesterdayPrice and change = 0), and in every other
\* case takes the fetched quote.
C26_MergeKeepsTradedQuotes ==
    \A l \in 1..MaxLoads :
        (loads[l].pc = "returned" /\ loads[l].codes # <<>> /\ ~loads[l].aborted) =>
            LET current == loads[l].currentStockData
                fetched == loads[l].data
                merged == loads[l].updated
            IN  /\ \A i \in 1..Len(merged), j \in 1..Len(merged) :
                      i # j => merged[i].code # merged[j].code
                /\ \A i \in 1..Len(current) :
                      \E j \in 1..Len(merged) : merged[j].code = current[i].code
                /\ \A i \in 1..Len(merged) :
                      LET old == HeldFor(current, merged[i].code)
                          new == FetchedFor(fetched, merged[i].code)
                      IN  IF new = {} THEN merged[i] \in old
                          ELSE IF \E o \in old, n \in new :
                                     /\ (o.price # o.yesterdayPrice \/ o.change # 0)
                                     /\ n.price = n.yesterdayPrice /\ n.change = 0
                          THEN merged[i] \in old
                          ELSE merged[i] \in new

C26_Witness ==
    /\ loads[1].pc = "returned"
    /\ Len(loads[1].currentStockData) = 1
    /\ Len(loads[1].data) = 2
    /\ Len(loads[1].updated) = 2
    /\ loads[1].currentStockData[1].price = 11
    /\ loads[1].updated[1] = loads[1].currentStockData[1]
    /\ \E j \in 1..2 :
          /\ loads[1].data[j].code = loads[1].currentStockData[1].code
          /\ loads[1].data[j].price = 10
          /\ loads[1].data[j].change = 0
    /\ loads[1].updated[2] \in {loads[1].data[1], loads[1].data[2]}
    /\ loads[1].updated[2].code # loads[1].updated[1].code

====
